---- MODULE Spec2Model ----
(***************************************************************************)
(* The "questions" plugin (src/questions/questions.py): the interview that *)
(* on_thread_ready runs with a thread's recipient, and the three           *)
(* configuration commands configquestions, configoutro and configintro.    *)
(*                                                                         *)
(* A Python str is a sequence of one-character strings; a dict is a        *)
(* sequence of <<key, value>> pairs in insertion order.  Every coroutine   *)
(* is cut at its awaits: one action runs the code between two awaits.      *)
(***************************************************************************)
EXTENDS Integers, Sequences, FiniteSets, TLC

\* ------------------------------------------------------------------ bounds
\* The longest questions list the store starts with (interview runs).
MaxQuestions == 2
\* Message events the gateway delivers in one run.
MaxMessages == 3
\* Configuration commands invoked in one run.
MaxCommands == 2
\* The longest text and attachment list handed to the answer derivation.
MaxText == 2
MaxAttachments == 2

\* ----------------------------------------------------------------- strings
Whitespace == {" ", "\t", "\n", "\r"}
Digits == {"0", "1", "2", "3", "4", "5", "6", "7", "8", "9"}

DigitVal(c) ==
    CASE c = "0" -> 0 [] c = "1" -> 1 [] c = "2" -> 2 [] c = "3" -> 3
      [] c = "4" -> 4 [] c = "5" -> 5 [] c = "6" -> 6 [] c = "7" -> 7
      [] c = "8" -> 8 [] c = "9" -> 9

DigitChar(d) ==
    CASE d = 0 -> "0" [] d = 1 -> "1" [] d = 2 -> "2" [] d = 3 -> "3"
      [] d = 4 -> "4" [] d = 5 -> "5" [] d = 6 -> "6" [] d = 7 -> "7"
      [] d = 8 -> "8" [] d = 9 -> "9"

\* str.strip(): leading and trailing whitespace removed.
RECURSIVE LStrip(_)
LStrip(s) ==
    IF s # <<>> /\ Head(s) \in Whitespace THEN LStrip(Tail(s)) ELSE s

RECURSIVE RStrip(_)
RStrip(s) ==
    IF s # <<>> /\ s[Len(s)] \in Whitespace
    THEN RStrip(SubSeq(s, 1, Len(s) - 1))
    ELSE s

Strip(s) == RStrip(LStrip(s))

\* The value of a run of decimal digits.
RECURSIVE DigitsValue(_)
DigitsValue(s) ==
    IF s = <<>> THEN 0
    ELSE 10 * DigitsValue(SubSeq(s, 1, Len(s) - 1)) + DigitVal(s[Len(s)])

\* int(str): optional surrounding whitespace, an optional sign, then decimal
\* digits; anything else raises ValueError.
ValueError == "ValueError"

IsIntLiteral(s) ==
    LET t == Strip(s)
        d == IF t # <<>> /\ Head(t) \in {"+", "-"} THEN Tail(t) ELSE t
    IN  d # <<>> /\ \A k \in 1..Len(d) : d[k] \in Digits

ParseInt(s) ==
    LET t == Strip(s)
        neg == t # <<>> /\ Head(t) = "-"
        d == IF t # <<>> /\ Head(t) \in {"+", "-"} THEN Tail(t) ELSE t
    IN  IF ~IsIntLiteral(s) THEN ValueError
        ELSE IF neg THEN 0 - DigitsValue(d) ELSE DigitsValue(d)

\* str(int) of a non-negative id.
RECURSIVE ToStr(_)
ToStr(n) ==
    IF n < 10 THEN <<DigitChar(n)>>
    ELSE ToStr(n \div 10) \o <<DigitChar(n % 10)>>

\* ------------------------------------------------------ answer derivation
\* "<No Message Content>"
Placeholder ==
    <<"<", "N", "o", " ", "M", "e", "s", "s", "a", "g", "e", " ",
      "C", "o", "n", "t", "e", "n", "t", ">">>

\* The backquote character (a string of the module cannot hold it).
BackQuote == "bq"

\* One attachment: a newline, the filename between backquotes, ": ", the url.
AttachmentLine(a) ==
    <<"\n", BackQuote>> \o a.filename \o <<BackQuote, ":", " ">> \o a.url

RECURSIVE AttachmentLines(_)
AttachmentLines(atts) ==
    IF atts = <<>> THEN <<>>
    ELSE AttachmentLine(Head(atts)) \o AttachmentLines(Tail(atts))

\* Faulty variant: the placeholder only for an empty text, not for a blank one.
AnswerNoStrip(content, attachments) ==
    LET text == IF content # <<>> THEN content ELSE Placeholder
    IN  IF Len(attachments) > 0
        THEN text \o <<"\n">> \o AttachmentLines(attachments)
        ELSE text

\* The answer recorded for a reply with text content and attachment list
\* attachments.
Answer(content, attachments) ==
    LET text == IF Strip(content) # <<>> THEN content ELSE Placeholder
    IN  IF Len(attachments) > 0
        THEN text \o <<"\n">> \o AttachmentLines(attachments)
        ELSE text

\* --------------------------------------------------------------- the dict
\* responses[question] = answer on an insertion-ordered dict: an existing key
\* keeps its place and takes the new value, a new key goes last.
HasKey(d, k) == \E j \in 1..Len(d) : d[j][1] = k

DictSet(d, k, v) ==
    IF HasKey(d, k)
    THEN [j \in 1..Len(d) |-> IF d[j][1] = k THEN <<k, v>> ELSE d[j]]
    ELSE Append(d, <<k, v>>)

\* ------------------------------------------------------------ the universe
Threads == {1, 2}
Sessions == {1, 2}
Users == {"u1", "u2"}
Operators == {"op1", "op2"}
\* thread.recipient
Recipient(t) == IF t = 1 THEN "u1" ELSE "u2"

\* Ids of the categories a move_to argument can name.
CategoryIds == {7, 12}

DMChannel(u) == [kind |-> "dm", id |-> u]
StaffChannel == [kind |-> "text", id |-> "staff"]

\* The texts stored by the configuration commands and sent by the interview.
QuestionTexts == {<<"a">>, <<"b">>}
IntroText == <<"h", "i">>
OutroText == <<"b", "y", "e">>

\* The replies a recipient sends.
Att1 == [filename |-> <<"a", ".", "p", "n", "g">>, url |-> <<"u", "1">>]
Att2 == [filename |-> <<"b">>, url |-> <<"u", "2">>]
Replies ==
    {[content |-> <<>>, attachments |-> <<>>],
     [content |-> <<"o", "k">>, attachments |-> <<>>],
     [content |-> <<>>, attachments |-> <<Att1>>]}

\* The replies an operator sends.
OperatorTexts ==
    {<<>>, <<"a", "b", "c">>, <<"0">>, <<"2">>, <<" ", "1">>, <<"-", "1">>}

\* m = None
NoMessage ==
    [id |-> 0, author |-> "none", channel |-> [kind |-> "none", id |-> "none"],
     content |-> <<>>, attachments |-> <<>>]

\* ---------------------------------------------------------- the config doc
\* The document {'_id': 'config'} of the plugin's partition: `has` is the set
\* of its keys (empty: no document).
Fields == {"questions", "intro", "outro", "move_to"}

NoDoc ==
    [has |-> {}, questions |-> <<>>, intro |-> <<>>, outro |-> <<>>,
     move_to |-> <<>>]

\* config.get(f) is truthy: the key is there and its value is not empty.
Truthy(doc, f) == f \in doc.has /\ doc[f] # <<>>

\* Faulty variant: the document is replaced by the fields.
UpsertReplace(doc, fields) ==
    [has |-> DOMAIN fields,
     questions |-> IF "questions" \in DOMAIN fields THEN fields.questions ELSE <<>>,
     intro |-> IF "intro" \in DOMAIN fields THEN fields.intro ELSE <<>>,
     outro |-> IF "outro" \in DOMAIN fields THEN fields.outro ELSE <<>>,
     move_to |-> IF "move_to" \in DOMAIN fields THEN fields.move_to ELSE <<>>]

\* find_one_and_update({'_id': 'config'}, {'$set': fields}, upsert=True)
Upsert(doc, fields) ==
    [has |-> doc.has \cup DOMAIN fields,
     questions |-> IF "questions" \in DOMAIN fields THEN fields.questions
                   ELSE doc.questions,
     intro |-> IF "intro" \in DOMAIN fields THEN fields.intro ELSE doc.intro,
     outro |-> IF "outro" \in DOMAIN fields THEN fields.outro ELSE doc.outro,
     move_to |-> IF "move_to" \in DOMAIN fields THEN fields.move_to
                 ELSE doc.move_to]

\* Sequences over S of length at most n.
SeqUpTo(S, n) == UNION {[1..k -> S] : k \in 0..n}

\* The category the stored documents of an interview run name.
Destination == CHOOSE c \in CategoryIds : \A d \in CategoryIds : d <= c

\* The documents the three commands can leave in the store.
StoreDocs ==
    {NoDoc} \cup
    {[has |-> h \cup {"move_to"},
      questions |-> IF "questions" \in h THEN q ELSE <<>>,
      intro |-> IF "intro" \in h THEN IntroText ELSE <<>>,
      outro |-> IF "outro" \in h THEN OutroText ELSE <<>>,
      move_to |-> ToStr(Destination)] :
        <<h, q>> \in ((SUBSET {"questions", "intro", "outro"}) \ {{}})
                     \X SeqUpTo(QuestionTexts, MaxQuestions)}

\* ------------------------------------------------------------------- state
VARIABLES
    store,       \* the config document
    categories,  \* ids of the categories that exist
    nMsg,        \* message events delivered so far
    nCmd,        \* configuration commands invoked so far
    iv,          \* per thread: the on_thread_ready coroutine
    conv,        \* per thread: the conversation (channel and thread)
    log,         \* per thread: the coroutine's side effects, in order
    cs,          \* per session: the configuration command's coroutine
    ansIn,       \* a reply handed to the answer derivation
    ansOut       \* the answer derived from it

vars == <<store, categories, nMsg, nCmd, iv, conv, log, cs, ansIn, ansOut>>

Event(ev, k, text) == [ev |-> ev, k |-> k, text |-> text]

CloseReason == "Closed due to inactivity and not responding to questions."

IdleInterview ==
    [pc |-> "idle", config |-> NoDoc, n |-> 0, responses |-> <<>>,
     m |-> NoMessage, ignored |-> {}]

IdleConversation ==
    [category |-> 0, synced |-> FALSE, closes |-> 0, reason |-> "",
     pinned |-> FALSE, summary |-> <<>>]

IdleSession ==
    [pc |-> "idle", variant |-> "none", channel |-> StaffChannel,
     author |-> "none", move_to |-> 0, stage |-> "none", count |-> 0,
     i |-> 0, questions |-> <<>>, m |-> NoMessage, out |-> <<>>,
     replies |-> <<>>, caught |-> "", before |-> NoDoc]

NoReply == [content |-> <<>>, attachments |-> <<>>]

\* ----------------------------------------------------------- ResponseWaiter
\* Faulty variant: any direct message passes, whoever wrote it.
DmCheckAnyAuthor(user, msg) == msg.channel.kind = "dm"

\* The check of wait_for_dm_response(user).
DmCheck(user, msg) == msg.channel.kind = "dm" /\ msg.author = user

\* The check of wait_for_channel_response(channel, member).
ChannelCheck(channel, member, msg) ==
    msg.channel = channel /\ msg.author = member

\* bot.get_channel(id): the channel with that id, as a set of at most one
\* element (empty: None).
GetChannel(id) == {c \in categories : c = id}

\* --------------------------------------------------------------- interview
notInterview == <<store, categories, nMsg, nCmd, cs, ansIn, ansOut>>

\* Faulty variant: the intro is sent whether set or not.
AfterLoadAlways(config) == "intro"

\* The await the coroutine stops at after the config is loaded: the reply of
\* the intro if one is set, of the first question otherwise.
AfterLoad(config) == IF Truthy(config, "intro") THEN "intro" ELSE "ask"

\* Faulty variant: only the presence of the questions key is tested.
ThreadReadyKeyOnly(t) ==
    /\ iv[t].pc = "idle"
    /\ LET config == store
       IN  iv' = [iv EXCEPT ![t] =
                    IF "questions" \notin config.has
                    THEN [@ EXCEPT !.pc = "disabled", !.config = config]
                    ELSE [@ EXCEPT !.pc = AfterLoad(config),
                                   !.config = config, !.n = 1]]
    /\ UNCHANGED <<conv, log>>
    /\ UNCHANGED notInterview

\* Faulty variant: no return when the config has no questions, so the loop
\* runs zero times and the summary is built next.
ThreadReadyNoReturn(t) ==
    /\ iv[t].pc = "idle"
    /\ LET config == store
       IN  iv' = [iv EXCEPT ![t] =
                    IF ~Truthy(config, "questions")
                    THEN [@ EXCEPT !.pc = "summarize", !.config = config]
                    ELSE [@ EXCEPT !.pc = AfterLoad(config),
                                   !.config = config, !.n = 1]]
    /\ UNCHANGED <<conv, log>>
    /\ UNCHANGED notInterview

\* on_thread_ready starts: the config is read; without questions it returns.
ThreadReady(t) ==
    /\ iv[t].pc = "idle"
    /\ LET config == store
       IN  iv' = [iv EXCEPT ![t] =
                    IF ~Truthy(config, "questions")
                    THEN [@ EXCEPT !.pc = "disabled", !.config = config]
                    ELSE [@ EXCEPT !.pc = AfterLoad(config),
                                   !.config = config, !.n = 1]]
    /\ UNCHANGED <<conv, log>>
    /\ UNCHANGED notInterview

\* Faulty variant: an exception of a send closes the thread.
CrashCloses(t) ==
    /\ iv' = [iv EXCEPT ![t].pc = "crashed"]
    /\ conv' = [conv EXCEPT ![t].closes = @ + 1, ![t].reason = CloseReason]
    /\ UNCHANGED log

\* An exception leaves the coroutine: nothing after it runs.
Crash(t) ==
    /\ iv' = [iv EXCEPT ![t].pc = "crashed"]
    /\ UNCHANGED <<conv, log>>

\* await thread.reply(q_message) with the intro returns or raises.
IntroSent(t) ==
    /\ iv[t].pc = "intro"
    /\ \/ /\ log' = [log EXCEPT ![t] =
                       Append(@, Event("intro", 0, iv[t].config.intro))]
          /\ iv' = [iv EXCEPT ![t].pc = "ask"]
          /\ UNCHANGED conv
       \/ Crash(t)
    /\ UNCHANGED notInterview

\* Faulty variant: the next question is sent without waiting for the reply.
QuestionSentNoWait(t) ==
    /\ iv[t].pc = "ask"
    /\ \/ /\ log' = [log EXCEPT ![t] =
                       Append(@, Event("question", iv[t].n,
                                       iv[t].config.questions[iv[t].n]))]
          /\ iv' = [iv EXCEPT
                      ![t].pc = IF iv[t].n = Len(iv[t].config.questions)
                                THEN "wait" ELSE "ask",
                      ![t].n = IF iv[t].n = Len(iv[t].config.questions)
                               THEN @ ELSE @ + 1]
          /\ UNCHANGED conv
       \/ Crash(t)
    /\ UNCHANGED notInterview

\* await thread.reply(q_message) with question n returns, and the wait for
\* the recipient's reply is registered; or the reply raises.
QuestionSent(t) ==
    /\ iv[t].pc = "ask"
    /\ \/ /\ log' = [log EXCEPT ![t] =
                       Append(@, Event("question", iv[t].n,
                                       iv[t].config.questions[iv[t].n]))]
          /\ iv' = [iv EXCEPT ![t].pc = "wait"]
          /\ UNCHANGED conv
       \/ Crash(t)
    /\ UNCHANGED notInterview

\* Faulty variant: the thread is closed and the loop goes on (no return).
ReplyTimeoutNoReturn(t) ==
    /\ iv[t].pc = "wait"
    /\ conv' = [conv EXCEPT ![t].closes = @ + 1, ![t].reason = CloseReason]
    /\ log' = [log EXCEPT ![t] = Append(@, Event("close", iv[t].n, <<>>))]
    /\ LET last == iv[t].n = Len(iv[t].config.questions)
       IN  iv' = [iv EXCEPT ![t].n = IF last THEN @ ELSE @ + 1,
                            ![t].pc = IF last THEN "summarize" ELSE "ask"]
    /\ UNCHANGED notInterview

\* Faulty variant: the wait has no timeout.
ReplyWaitsForever(t) ==
    /\ iv[t].pc = "wait"
    /\ UNCHANGED <<iv, conv, log>>
    /\ UNCHANGED notInterview

\* asyncio.TimeoutError: the thread is closed and the coroutine returns.
ReplyTimeout(t) ==
    /\ iv[t].pc = "wait"
    /\ conv' = [conv EXCEPT ![t].closes = @ + 1, ![t].reason = CloseReason]
    /\ log' = [log EXCEPT ![t] = Append(@, Event("close", iv[t].n, <<>>))]
    /\ iv' = [iv EXCEPT ![t].pc = "aborted"]
    /\ UNCHANGED notInterview

\* The coroutine resumes with the reply m: the answer is derived and
\* recorded under the question (the log notes the exchange), and the loop
\* goes on or ends.
RecordAnswer(t) ==
    /\ iv[t].pc = "got"
    /\ LET question == iv[t].config.questions[iv[t].n]
           answer == Answer(iv[t].m.content, iv[t].m.attachments)
           last == iv[t].n = Len(iv[t].config.questions)
       IN  /\ iv' = [iv EXCEPT
                       ![t].responses = DictSet(@, question, answer),
                       ![t].n = IF last THEN @ ELSE @ + 1,
                       ![t].pc = IF last THEN "summarize" ELSE "ask"]
           /\ log' = [log EXCEPT ![t] =
                        Append(@, Event("answer", iv[t].n, answer))]
    /\ UNCHANGED conv
    /\ UNCHANGED notInterview

\* After the sleep the embed is built, one field per item of responses, with
\* the author of m (m.author.name, m.author.get("avatar", {}).url), and
\* await thread.channel.send(embed=embed) returns; or one of them raises.
Summarize(t) ==
    /\ iv[t].pc = "summarize"
    /\ \/ /\ conv' = [conv EXCEPT ![t].summary = iv[t].responses]
          /\ log' = [log EXCEPT ![t] = Append(@, Event("summary", 0, <<>>))]
          /\ iv' = [iv EXCEPT ![t].pc = "pin"]
       \/ Crash(t)
    /\ UNCHANGED notInterview

\* await message.pin() returns or raises.
Pin(t) ==
    /\ iv[t].pc = "pin"
    /\ \/ /\ conv' = [conv EXCEPT ![t].pinned = TRUE]
          /\ log' = [log EXCEPT ![t] = Append(@, Event("pin", 0, <<>>))]
          /\ iv' = [iv EXCEPT ![t].pc =
                      IF Truthy(iv[t].config, "outro") THEN "outro"
                      ELSE "relocate"]
       \/ Crash(t)
    /\ UNCHANGED notInterview

\* Faulty variant: the outro is read from the store when it is sent.
OutroSentRereads(t) ==
    /\ iv[t].pc = "outro"
    /\ \/ /\ log' = [log EXCEPT ![t] =
                       Append(@, Event("outro", 0, store.outro))]
          /\ iv' = [iv EXCEPT ![t].pc = "relocate"]
          /\ UNCHANGED conv
       \/ Crash(t)
    /\ UNCHANGED notInterview

\* await thread.reply(q_message) with the outro returns or raises.
OutroSent(t) ==
    /\ iv[t].pc = "outro"
    /\ \/ /\ log' = [log EXCEPT ![t] =
                       Append(@, Event("outro", 0, iv[t].config.outro))]
          /\ iv' = [iv EXCEPT ![t].pc = "relocate"]
          /\ UNCHANGED conv
       \/ Crash(t)
    /\ UNCHANGED notInterview

\* Faulty variant: the channel is edited without the test for None.
RelocateUnchecked(t) ==
    /\ iv[t].pc = "relocate"
    /\ conv' = [conv EXCEPT ![t].category = ParseInt(iv[t].config.move_to),
                            ![t].synced = TRUE]
    /\ log' = [log EXCEPT ![t] = Append(@, Event("move", 0, <<>>))]
    /\ iv' = [iv EXCEPT ![t].pc = "done"]
    /\ UNCHANGED notInterview

\* move_to is looked up: the channel is moved and synchronized, or the
\* warning is logged; config['move_to'] missing or no integer raises.
Relocate(t) ==
    /\ iv[t].pc = "relocate"
    /\ LET config == iv[t].config
       IN  IF "move_to" \notin config.has \/ ~IsIntLiteral(config.move_to)
           THEN Crash(t)
           ELSE LET move_to == GetChannel(ParseInt(config.move_to))
                IN  IF move_to = {}
                    THEN /\ log' = [log EXCEPT ![t] =
                                      Append(@, Event("warning", 0, <<>>))]
                         /\ iv' = [iv EXCEPT ![t].pc = "done"]
                         /\ UNCHANGED conv
                    ELSE /\ conv' = [conv EXCEPT
                                       ![t].category = CHOOSE c \in move_to : TRUE,
                                       ![t].synced = TRUE]
                         /\ log' = [log EXCEPT ![t] =
                                      Append(@, Event("move", 0, <<>>))]
                         /\ iv' = [iv EXCEPT ![t].pc = "done"]
    /\ UNCHANGED notInterview

\* ------------------------------------------------------------ the gateway
\* Faulty variant: a matching message that arrives before the wait is
\* registered is kept and resolves the wait.
DeliverToThreadBuffered(t, msg) ==
    IF ~DmCheck(Recipient(t), msg) \/ iv[t].pc = "idle" THEN iv[t]
    ELSE IF iv[t].pc \in {"wait", "ask"}
         THEN [iv[t] EXCEPT !.m = msg, !.pc = "got"]
    ELSE [iv[t] EXCEPT !.ignored = @ \cup {iv[t].pc}]

\* What a message event does to a thread's coroutine: a registered wait whose
\* check passes is resolved with it; without a wait the event is gone.
DeliverToThread(t, msg) ==
    IF ~DmCheck(Recipient(t), msg) \/ iv[t].pc = "idle" THEN iv[t]
    ELSE IF iv[t].pc = "wait" THEN [iv[t] EXCEPT !.m = msg, !.pc = "got"]
    ELSE [iv[t] EXCEPT !.ignored = @ \cup {iv[t].pc}]

\* The same for a configuration command's coroutine.
DeliverToSession(s, msg) ==
    IF cs[s].pc = "wait" /\ ChannelCheck(cs[s].channel, cs[s].author, msg)
    THEN [cs[s] EXCEPT !.m = msg, !.pc = "got",
                       !.replies = Append(@, msg.content)]
    ELSE cs[s]

\* A message event: author, channel, text and attachments.
OnMessage(author, channel, content, attachments) ==
    /\ nMsg < MaxMessages
    /\ nMsg' = nMsg + 1
    /\ LET msg == [id |-> nMsg + 1, author |-> author, channel |-> channel,
                   content |-> content, attachments |-> attachments]
       IN  /\ iv' = [t \in Threads |-> DeliverToThread(t, msg)]
           /\ cs' = [s \in Sessions |-> DeliverToSession(s, msg)]
    /\ UNCHANGED <<store, categories, nCmd, conv, log, ansIn, ansOut>>

\* A category is deleted.
DeleteCategory(c) ==
    /\ c \in categories
    /\ categories' = categories \ {c}
    /\ UNCHANGED <<store, nMsg, nCmd, iv, conv, log, cs, ansIn, ansOut>>

\* A recipient or another user writes, in a direct message or in the server.
UserMessage ==
    \E u \in Users, ch \in {"dm", "text"}, r \in Replies :
        OnMessage(u, IF ch = "dm" THEN DMChannel(u) ELSE StaffChannel,
                  r.content, r.attachments)

InitInterview ==
    /\ store \in StoreDocs
    /\ categories = CategoryIds
    /\ nMsg = 0
    /\ nCmd = 0
    /\ iv = [t \in Threads |-> IdleInterview]
    /\ conv = [t \in Threads |-> IdleConversation]
    /\ log = [t \in Threads |-> <<>>]
    /\ cs = [s \in Sessions |-> IdleSession]
    /\ ansIn = NoReply
    /\ ansOut = <<>>

\* One interview: thread 1 and its recipient.
InterviewStep(t) ==
    \/ ThreadReady(t)
    \/ IntroSent(t)
    \/ QuestionSent(t)
    \/ ReplyTimeout(t)
    \/ RecordAnswer(t)
    \/ Summarize(t)
    \/ Pin(t)
    \/ OutroSent(t)
    \/ Relocate(t)

NextInterview ==
    \/ InterviewStep(1)
    \/ UserMessage
    \/ \E c \in CategoryIds : DeleteCategory(c)

SpecInterview == InitInterview /\ [][NextInterview]_vars

\* A step of the interview when no send or pin raises.
FlowStep(t) == InterviewStep(t) /\ iv'[t].pc # "crashed"

\* The recipient of thread 1 writes a direct message.
RecipientMessage ==
    \E r \in Replies :
        OnMessage(Recipient(1), DMChannel(Recipient(1)),
                  r.content, r.attachments)

NextLive ==
    \/ FlowStep(1)
    \/ RecipientMessage
    \/ DeleteCategory(Destination)

\* The event loop resumes the coroutine whenever an await of it can return:
\* a send returns, and a wait returns a reply or, after 1800 seconds, the
\* timeout.
SpecInterviewLive ==
    InitInterview /\ [][NextLive]_vars /\ WF_vars(FlowStep(1))

\* Two interviews at once, each with its own recipient, under a config that
\* has questions, intro and outro.
InitTwo ==
    /\ InitInterview
    /\ Truthy(store, "questions")
    /\ Len(store.questions) < MaxQuestions
    /\ store.has = Fields

\* One of the two recipients writes a direct message.
RecipientsMessage ==
    \E t \in Threads, r \in Replies :
        OnMessage(Recipient(t), DMChannel(Recipient(t)),
                  r.content, r.attachments)

NextTwo ==
    \/ \E t \in Threads : InterviewStep(t)
    \/ RecipientsMessage

SpecTwo == InitTwo /\ [][NextTwo]_vars

\* ------------------------------------------------- configuration commands
notSession == <<categories, nMsg, iv, conv, log, ansIn, ansOut>>

Out(msg, i) == [msg |-> msg, i |-> i]

\* The first prompt of a command.
FirstPrompt(variant) ==
    CASE variant = "questions" -> Out("How many questions do you have?", 0)
      [] variant = "outro" -> Out("Type the outro you want", 0)
      [] variant = "intro" -> Out("Type the intro you want", 0)

\* The message of a command for an empty reply.
TextOnly(variant) ==
    CASE variant = "questions" -> Out("Question must be text-only.", 0)
      [] variant = "outro" -> Out("Outro must be text-only.", 0)
      [] variant = "intro" -> Out("Intro must be text-only.", 0)

\* A moderator invokes configquestions, configoutro or configintro with an
\* existing category; the command starts sending its first prompt.
Invoke(s, variant, member, category) ==
    /\ cs[s].pc \in {"idle", "done", "crashed"}
    /\ nCmd < MaxCommands
    /\ category \in categories
    /\ nCmd' = nCmd + 1
    /\ cs' = [cs EXCEPT ![s] =
                [IdleSession EXCEPT
                    !.pc = "prompt", !.variant = variant, !.author = member,
                    !.move_to = category, !.before = store,
                    !.stage = IF variant = "questions" THEN "count" ELSE "text"]]
    /\ UNCHANGED <<store, categories, nMsg, iv, conv, log, ansIn, ansOut>>

\* return await ctx.send(msg): the command ends, with msg sent or with the
\* exception of the send.
Return(s, msg, caught) ==
    \/ cs' = [cs EXCEPT ![s].pc = "done", ![s].out = Append(@, msg),
                        ![s].caught = caught]
    \/ cs' = [cs EXCEPT ![s].pc = "crashed", ![s].caught = caught]

\* await ctx.send(prompt) returns and the wait for the operator's reply is
\* registered; or the send raises.
PromptSent(s) ==
    /\ cs[s].pc = "prompt"
    /\ \/ cs' = [cs EXCEPT
                   ![s].pc = "wait",
                   ![s].out = Append(@, IF cs[s].stage = "question"
                                        THEN Out("What's question #", cs[s].i)
                                        ELSE FirstPrompt(cs[s].variant))]
       \/ cs' = [cs EXCEPT ![s].pc = "crashed"]
    /\ UNCHANGED store
    /\ UNCHANGED <<nCmd>>
    /\ UNCHANGED notSession

\* Faulty variant: a timeout saves the questions collected so far.
ConfigTimeoutSaves(s) ==
    /\ cs[s].pc = "wait"
    /\ Return(s, Out("Timed out.", 0), "TimeoutError")
    /\ store' = Upsert(store, [questions |-> cs[s].questions,
                               move_to |-> ToStr(cs[s].move_to)])
    /\ UNCHANGED <<nCmd>>
    /\ UNCHANGED notSession

\* asyncio.TimeoutError at any wait of a command.
ConfigTimeout(s) ==
    /\ cs[s].pc = "wait"
    /\ Return(s, Out("Timed out.", 0), "TimeoutError")
    /\ UNCHANGED store
    /\ UNCHANGED <<nCmd>>
    /\ UNCHANGED notSession

\* Faulty variant: the command's field is saved without move_to.
PersistNoMove(s, fields, questions) ==
    /\ store' = Upsert(store, [f \in DOMAIN fields \ {"move_to"} |-> fields[f]])
    /\ cs' = [cs EXCEPT ![s].pc = "saved", ![s].questions = questions]

\* Faulty variant: the document read at the command's start is written
\* back with the command's fields (read, modify, write).
PersistFromSnapshot(s, fields, questions) ==
    /\ store' = Upsert(cs[s].before, fields)
    /\ cs' = [cs EXCEPT ![s].pc = "saved", ![s].questions = questions]

\* find_one_and_update with the command's fields, then 'Saved' is sent.
Persist(s, fields, questions) ==
    /\ store' = Upsert(store, fields)
    /\ cs' = [cs EXCEPT ![s].pc = "saved", ![s].questions = questions]

\* Faulty variant: a reply that is no integer counts as 0.
CountReplyUnchecked(s) ==
    /\ cs[s].pc = "got"
    /\ cs[s].stage = "count"
    /\ LET content == cs[s].m.content
           count == IF IsIntLiteral(content) THEN ParseInt(content) ELSE 0
       IN  IF count >= 1
           THEN /\ cs' = [cs EXCEPT ![s].count = count, ![s].i = 1,
                                    ![s].stage = "question",
                                    ![s].pc = "prompt"]
                /\ UNCHANGED store
           ELSE Persist(s, [questions |-> <<>>,
                            move_to |-> ToStr(cs[s].move_to)], <<>>)
    /\ UNCHANGED <<nCmd>>
    /\ UNCHANGED notSession

\* configquestions resumes with the reply to the count prompt.
CountReply(s) ==
    /\ cs[s].pc = "got"
    /\ cs[s].stage = "count"
    /\ LET content == cs[s].m.content
       IN  IF ~IsIntLiteral(content)
           THEN Return(s, Out("Invalid input.", 0), ValueError)
                /\ UNCHANGED store
           ELSE LET count == ParseInt(content)
                IN  IF count >= 1
                    THEN /\ cs' = [cs EXCEPT ![s].count = count, ![s].i = 1,
                                             ![s].stage = "question",
                                             ![s].pc = "prompt"]
                         /\ UNCHANGED store
                    ELSE /\ Persist(s, [questions |-> <<>>,
                                        move_to |-> ToStr(cs[s].move_to)], <<>>)
    /\ UNCHANGED <<nCmd>>
    /\ UNCHANGED notSession

\* Faulty variant: an empty reply is taken as a question.
QuestionReplyUnchecked(s) ==
    /\ cs[s].pc = "got"
    /\ cs[s].stage = "question"
    /\ LET questions == Append(cs[s].questions, cs[s].m.content)
       IN  IF cs[s].i < cs[s].count
           THEN /\ cs' = [cs EXCEPT ![s].questions = questions,
                                    ![s].i = @ + 1, ![s].pc = "prompt"]
                /\ UNCHANGED store
           ELSE Persist(s, [questions |-> questions,
                            move_to |-> ToStr(cs[s].move_to)], questions)
    /\ UNCHANGED <<nCmd>>
    /\ UNCHANGED notSession

\* configquestions resumes with the reply to question prompt i.
QuestionReply(s) ==
    /\ cs[s].pc = "got"
    /\ cs[s].stage = "question"
    /\ LET content == cs[s].m.content
           questions == Append(cs[s].questions, content)
       IN  IF content = <<>>
           THEN Return(s, TextOnly(cs[s].variant), "") /\ UNCHANGED store
           ELSE IF cs[s].i < cs[s].count
           THEN /\ cs' = [cs EXCEPT ![s].questions = questions,
                                    ![s].i = @ + 1, ![s].pc = "prompt"]
                /\ UNCHANGED store
           ELSE Persist(s, [questions |-> questions,
                            move_to |-> ToStr(cs[s].move_to)], questions)
    /\ UNCHANGED <<nCmd>>
    /\ UNCHANGED notSession

\* configoutro or configintro resumes with the reply to its prompt.
TextReply(s) ==
    /\ cs[s].pc = "got"
    /\ cs[s].stage = "text"
    /\ LET content == cs[s].m.content
       IN  IF content = <<>>
           THEN Return(s, TextOnly(cs[s].variant), "") /\ UNCHANGED store
           ELSE IF cs[s].variant = "outro"
           THEN Persist(s, [outro |-> content,
                            move_to |-> ToStr(cs[s].move_to)], <<>>)
           ELSE Persist(s, [intro |-> content,
                            move_to |-> ToStr(cs[s].move_to)], <<>>)
    /\ UNCHANGED <<nCmd>>
    /\ UNCHANGED notSession

\* await ctx.send('Saved') returns or raises.
SavedSent(s) ==
    /\ cs[s].pc = "saved"
    /\ Return(s, Out("Saved", 0), "")
    /\ UNCHANGED store
    /\ UNCHANGED <<nCmd>>
    /\ UNCHANGED notSession

\* An operator writes, in the server or in a direct message.
OperatorMessage ==
    \E o \in Operators, ch \in {"dm", "text"}, c \in OperatorTexts :
        OnMessage(o, IF ch = "dm" THEN DMChannel(o) ELSE StaffChannel, c, <<>>)

InitConfig ==
    /\ store = NoDoc
    /\ categories = CategoryIds
    /\ nMsg = 0
    /\ nCmd = 0
    /\ iv = [t \in Threads |-> IdleInterview]
    /\ conv = [t \in Threads |-> IdleConversation]
    /\ log = [t \in Threads |-> <<>>]
    /\ cs = [s \in Sessions |-> IdleSession]
    /\ ansIn = NoReply
    /\ ansOut = <<>>

SessionStep(s) ==
    \/ PromptSent(s)
    \/ ConfigTimeout(s)
    \/ CountReply(s)
    \/ QuestionReply(s)
    \/ TextReply(s)
    \/ SavedSent(s)

\* Commands of one operator, one after the other.
NextConfig ==
    \/ \E v \in {"questions", "outro", "intro"}, c \in CategoryIds :
          Invoke(1, v, "op1", c)
    \/ SessionStep(1)
    \/ OperatorMessage

SpecConfig == InitConfig /\ [][NextConfig]_vars

\* An operator writes in the channel the commands were invoked in.
StaffMessage ==
    \E o \in Operators, c \in {<<>>, <<"a", "b", "c">>, <<" ", "1">>} :
        OnMessage(o, StaffChannel, c, <<>>)

\* Two commands at once: the first invoked by one operator, the second by
\* the same or by another one.
NextConfig2 ==
    \/ \E s \in Sessions, v \in {"questions", "outro", "intro"},
          o \in Operators, c \in CategoryIds :
          /\ cs[s].pc = "idle"
          /\ s = 1 => o = "op1"
          /\ Invoke(s, v, o, c)
    \/ \E s \in Sessions : SessionStep(s)
    \/ StaffMessage

SpecConfig2 == InitConfig /\ [][NextConfig2]_vars

\* ------------------------------------------------ answer derivation alone
AnswerInputs ==
    [content : SeqUpTo({"o", " ", "\n"}, MaxText),
     attachments : SeqUpTo({Att1, Att2}, MaxAttachments)]

InitAnswer ==
    /\ store = NoDoc
    /\ categories = CategoryIds
    /\ nMsg = 0
    /\ nCmd = 0
    /\ iv = [t \in Threads |-> IdleInterview]
    /\ conv = [t \in Threads |-> IdleConversation]
    /\ log = [t \in Threads |-> <<>>]
    /\ cs = [s \in Sessions |-> IdleSession]
    /\ ansIn \in AnswerInputs
    /\ ansOut = <<>>

\* The else branch of the wait, applied to the reply ansIn.
DeriveAnswer ==
    /\ ansOut = <<>>
    /\ ansOut' = Answer(ansIn.content, ansIn.attachments)
    /\ UNCHANGED <<store, categories, nMsg, nCmd, iv, conv, log, cs, ansIn>>

NextAnswer == DeriveAnswer

SpecAnswer == InitAnswer /\ [][NextAnswer]_vars

\* ================================================================== claims
Last(q) == q[Len(q)]

Keys(d) == [j \in 1..Len(d) |-> d[j][1]]

HasEvent(t, ev) == \E j \in 1..Len(log[t]) : log[t][j].ev = ev

CountEvents(t, ev) == Cardinality({j \in 1..Len(log[t]) : log[t][j].ev = ev})

\* Every question of the interview's config has been answered.
AllAnswered(t) ==
    iv[t].pc \in {"summarize", "pin", "outro", "relocate", "done"}

\* C1: when all N replies arrived, the record the summary is built from has
\* exactly N entries, one per question asked, in the order of the questions
\* (repeated questions included).
C1_OneEntryPerQuestion ==
    \A t \in Threads :
        AllAnswered(t) => Keys(iv[t].responses) = iv[t].config.questions

\* The wait of a question timed out: the close is in the log.
TimedOut(t) == HasEvent(t, "close")

\* What holds of a thread from the timeout of question k on.

C2_Aborted(t) ==
    LET k == iv[t].n
        questions == iv[t].config.questions
    IN  /\ iv[t].pc = "aborted"
        /\ k \in 1..Len(questions)
        /\ conv[t].closes = 1
        /\ conv[t].reason = CloseReason
        /\ CountEvents(t, "close") = 1
        /\ Last(log[t]).ev = "close"
        /\ Len(iv[t].responses) <= k - 1
        /\ \A j \in 1..Len(iv[t].responses) :
              \E q \in 1..(k - 1) : iv[t].responses[j][1] = questions[q]
        /\ CountEvents(t, "question") = k
        /\ CountEvents(t, "answer") = k - 1
        /\ ~HasEvent(t, "summary") /\ ~HasEvent(t, "pin")
        /\ ~HasEvent(t, "outro") /\ ~HasEvent(t, "move")
        /\ ~HasEvent(t, "warning")
        /\ conv[t].summary = <<>> /\ ~conv[t].pinned
        /\ conv[t].category = 0 /\ ~conv[t].synced

\* C2: a timeout at question k closes the conversation once, with the fixed
\* reason; no answer beyond question k-1 is held; and the flow is over: no
\* further question, summary, pin, outro or relocation, whatever arrives.
C2_TimeoutIsTerminal ==
    \A t \in Threads : TimedOut(t) => C2_Aborted(t)

\* The reply to question 1 was recorded, question 2 timed out, and the
\* recipient wrote again after the close.
C2_Witness ==
    /\ TimedOut(1)
    /\ iv[1].n = 2
    /\ Len(iv[1].responses) = 1
    /\ "aborted" \in iv[1].ignored

\* The text is empty or whitespace only.
IsBlank(text) == \A k \in 1..Len(text) : text[k] \in Whitespace

Pair(a) == <<BackQuote>> \o a.filename \o <<BackQuote, ":", " ">> \o a.url

RECURSIVE JoinLines(_)
JoinLines(lines) ==
    IF lines = <<>> THEN <<>>
    ELSE IF Len(lines) = 1 THEN lines[1]
    ELSE lines[1] \o <<"\n">> \o JoinLines(Tail(lines))

Pairs(atts) == [j \in 1..Len(atts) |-> Pair(atts[j])]

AnswerStart(r) == IF IsBlank(r.content) THEN Placeholder ELSE r.content

\* C3 (as stated): the answer is the text, or the placeholder for a blank
\* text; then, with attachments, one newline and the pairs, one per line.
C3_AsClaimed ==
    ansOut # <<>> =>
        ansOut = IF ansIn.attachments = <<>> THEN AnswerStart(ansIn)
                 ELSE AnswerStart(ansIn) \o <<"\n">>
                      \o JoinLines(Pairs(ansIn.attachments))

\* C3 (amended): with attachments the text or placeholder is followed by two
\* newlines (an empty line) and then the pairs, one per line; without
\* attachments the answer is the text or placeholder alone.
C3_AnswerDerivation ==
    ansOut # <<>> =>
        ansOut = IF ansIn.attachments = <<>> THEN AnswerStart(ansIn)
                 ELSE AnswerStart(ansIn) \o <<"\n", "\n">>
                      \o JoinLines(Pairs(ansIn.attachments))

\* A blank text with two attachments has been derived.
C3_Witness ==
    /\ ansOut # <<>>
    /\ ansIn.content = <<" ">>
    /\ ansIn.attachments = <<Att1, Att2>>

\* The command has written the store.
Persisted(s) ==
    \/ cs[s].pc = "saved"
    \/ cs[s].pc = "done" /\ Last(cs[s].out).msg = "Saved"

\* C4: a command that saved has set its own field and move_to; every other
\* field of the document is as it was when the command was invoked.
C4_UpsertMerge ==
    \A s \in Sessions :
        Persisted(s) =>
            LET own == cs[s].variant
                before == cs[s].before
            IN  /\ store.has = before.has \cup {own, "move_to"}
                /\ store.move_to = ToStr(cs[s].move_to)
                /\ store[own] = IF own = "questions" THEN cs[s].questions
                                ELSE Last(cs[s].replies)
                /\ \A f \in Fields \ {own, "move_to"} : store[f] = before[f]

\* configoutro has saved over a document that held questions.
C4_Witness ==
    /\ Persisted(1)
    /\ cs[1].variant = "outro"
    /\ "questions" \in cs[1].before.has
    /\ cs[1].before.questions # <<>>
    /\ store.questions = cs[1].before.questions

\* A text without a digit is no integer.
HasNoDigit(text) == \A k \in 1..Len(text) : text[k] \notin Digits

\* C5: configquestions whose count reply is no integer ends with
\* 'Invalid input.', asks no question and leaves the store as it was.
C5_InvalidCount ==
    \A s \in Sessions :
        (/\ cs[s].variant = "questions"
         /\ cs[s].replies # <<>>
         /\ HasNoDigit(cs[s].replies[1])
         /\ cs[s].pc # "got")
        => /\ cs[s].pc \in {"done", "crashed"}
           /\ Len(cs[s].replies) = 1
           /\ store = cs[s].before
           /\ cs[s].out =
                IF cs[s].pc = "done"
                THEN <<Out("How many questions do you have?", 0),
                       Out("Invalid input.", 0)>>
                ELSE <<Out("How many questions do you have?", 0)>>

\* The count prompt was answered "abc" and the command has ended.
C5_Witness ==
    /\ cs[1].variant = "questions"
    /\ cs[1].replies = <<(<<"a", "b", "c">>)>>
    /\ cs[1].pc = "done"
    /\ Last(cs[1].out).msg = "Invalid input."

\* The replies to the prompts that ask for a text.
TextReplies(s) ==
    IF cs[s].variant = "questions" THEN Tail(cs[s].replies) ELSE cs[s].replies

\* C6: an empty reply where a text is required ends the command with its
\* text-only message and leaves the store as it was, whatever was collected.
C6_EmptyReply ==
    \A s \in Sessions :
        (/\ cs[s].replies # <<>>
         /\ TextReplies(s) # <<>>
         /\ Last(TextReplies(s)) = <<>>
         /\ cs[s].pc # "got")
        => /\ cs[s].pc \in {"done", "crashed"}
           /\ store = cs[s].before
           /\ cs[s].pc = "done" =>
                Last(cs[s].out) =
                    CASE cs[s].variant = "questions" ->
                            Out("Question must be text-only.", 0)
                      [] cs[s].variant = "outro" ->
                            Out("Outro must be text-only.", 0)
                      [] cs[s].variant = "intro" ->
                            Out("Intro must be text-only.", 0)
           /\ cs[s].pc = "crashed" =>
                Last(cs[s].out).msg \notin
                    {"Saved", "Question must be text-only.",
                     "Outro must be text-only.", "Intro must be text-only."}

\* Count 2, a first question, then an empty reply to question prompt 2.
C6_Witness ==
    /\ cs[1].variant = "questions"
    /\ cs[1].count = 2
    /\ Len(cs[1].questions) = 1
    /\ Len(cs[1].replies) = 3
    /\ Last(cs[1].replies) = <<>>
    /\ cs[1].pc = "done"

\* C7: a timeout at any wait of a command ends it with 'Timed out.' and
\* leaves the store as it was.
C7_Timeout ==
    \A s \in Sessions :
        cs[s].caught = "TimeoutError"
        => /\ cs[s].pc \in {"done", "crashed"}
           /\ store = cs[s].before
           /\ cs[s].pc = "done" => Last(cs[s].out) = Out("Timed out.", 0)
           /\ cs[s].pc = "crashed" => Last(cs[s].out).msg # "Timed out."

\* configquestions timed out at question prompt 2, one question collected.
C7_Witness ==
    /\ cs[1].caught = "TimeoutError"
    /\ cs[1].variant = "questions"
    /\ Len(cs[1].questions) = 1
    /\ cs[1].pc = "done"

\* The step that leaves the relocation of thread t.
C8_Step(t) ==
    (iv[t].pc = "relocate" /\ iv'[t].pc # "relocate")
    => /\ iv[t].config.move_to = ToStr(Destination)
       /\ HasEvent(t, "summary") /\ HasEvent(t, "pin") /\ conv[t].pinned
       /\ ("outro" \in iv[t].config.has) => HasEvent(t, "outro")
       /\ iv'[t].pc = "done"
       /\ Len(log'[t]) = Len(log[t]) + 1
       /\ IF Destination \in categories
          THEN /\ conv'[t] = [conv[t] EXCEPT !.category = Destination,
                                             !.synced = TRUE]
               /\ Last(log'[t]).ev = "move"
          ELSE /\ conv'[t] = conv[t]
               /\ Last(log'[t]).ev = "warning"

\* C8: the relocation step of a fully answered interview moves the channel
\* to the configured category and synchronizes it when the category exists;
\* otherwise it logs the warning and leaves the conversation as it is; either
\* way the interview ends normally, summary, pin and outro delivered before.
C8_Relocation == [][\A t \in Threads : C8_Step(t)]_vars

\* An interview with an outro ended with the warning, the channel not moved.
C8_Witness ==
    /\ iv[1].pc = "done"
    /\ Last(log[1]).ev = "warning"
    /\ HasEvent(1, "outro")
    /\ conv[1].category = 0
    /\ ~conv[1].synced
    /\ Destination \notin categories

\* No document, no questions key, or an empty list.
NoQuestions(doc) == "questions" \notin doc.has \/ Len(doc.questions) = 0

\* C9: without questions (no document, no questions key, an empty list) a
\* triggered interview sends nothing, waits for nothing, closes and moves
\* nothing and changes no state.
C9_FeatureDisabled ==
    \A t \in Threads :
        (iv[t].pc # "idle" /\ NoQuestions(iv[t].config))
        => /\ iv[t].pc = "disabled"
           /\ log[t] = <<>>
           /\ conv[t] = IdleConversation
           /\ iv[t].responses = <<>>
           /\ iv[t].m = NoMessage
           /\ store = iv[t].config

\* An empty questions list with intro and outro set; the recipient wrote
\* after the trigger.
C9_Witness ==
    /\ iv[1].pc = "disabled"
    /\ {"questions", "intro", "outro"} \subseteq iv[1].config.has
    /\ iv[1].config.questions = <<>>
    /\ "disabled" \in iv[1].ignored

\* The field is there and not empty.
IsSet(doc, f) == f \in doc.has /\ doc[f] # <<>>

ExpectedLen(config) ==
    (IF IsSet(config, "intro") THEN 1 ELSE 0) + 2 * Len(config.questions) + 2
    + (IF IsSet(config, "outro") THEN 1 ELSE 0) + 1

\* The place j of the full order: the kind of event, the question it is
\* about and the text it carries.
ExpectedAt(config, j) ==
    LET I == IF IsSet(config, "intro") THEN 1 ELSE 0
        N == Len(config.questions)
        q == (j - I + 1) \div 2
    IN  IF j <= I THEN <<"intro", 0, config.intro>>
        ELSE IF j <= I + 2 * N
             THEN IF (j - I) % 2 = 1 THEN <<"question", q, config.questions[q]>>
                  ELSE <<"answer", q, <<>>>>
        ELSE IF j = I + 2 * N + 1 THEN <<"summary", 0, <<>>>>
        ELSE IF j = I + 2 * N + 2 THEN <<"pin", 0, <<>>>>
        ELSE IF IsSet(config, "outro") /\ j = I + 2 * N + 3
             THEN <<"outro", 0, config.outro>>
        ELSE <<"relocation", 0, <<>>>>

InPlace(e, x) ==
    /\ (IF e.ev \in {"move", "warning"} THEN "relocation" ELSE e.ev) = x[1]
    /\ e.k = x[2]
    /\ e.ev \in {"intro", "question", "outro"} => e.text = x[3]

\* C10: the side effects of an interview come in the order intro (iff set),
\* prompt and reply of each question in turn, summary, pin, outro (iff set),
\* relocation; a timeout's close comes right after a prompt and ends the log.
C10_StrictOrder ==
    \A t \in Threads :
        LET L == log[t]
            config == iv[t].config
        IN  /\ L # <<>> => Len(L) <= ExpectedLen(config)
            /\ \A j \in 1..Len(L) :
                  \/ InPlace(L[j], ExpectedAt(config, j))
                  \/ /\ j = Len(L) /\ j > 1
                     /\ L[j].ev = "close"
                     /\ L[j - 1].ev = "question"

\* A complete interview of two questions with intro and outro.
C10_Witness ==
    /\ iv[1].pc = "done"
    /\ Len(iv[1].config.questions) = 2
    /\ Len(log[1]) = 9

\* C11: a configquestions that saved parsed a count of at least 1 and saved
\* exactly that many questions, the replies to prompts 1..count in order, so
\* never an empty list.
C11_PositiveCount ==
    \A s \in Sessions :
        (Persisted(s) /\ cs[s].variant = "questions")
        => /\ cs[s].count >= 1
           /\ Len(store.questions) = cs[s].count
           /\ store.questions = Tail(cs[s].replies)
           /\ store.questions # <<>>

\* C18: a stored document that holds questions, intro or outro also holds
\* move_to, and its value reads as an integer.
C18_MoveToPresent ==
    (store.has \cap {"questions", "intro", "outro"} # {})
    => /\ "move_to" \in store.has
       /\ store.move_to \in {ToStr(c) : c \in CategoryIds}

\* Two commands have saved: intro and outro are stored, with move_to.
C18_Witness ==
    /\ {"intro", "outro", "move_to"} \subseteq store.has
    /\ cs[1].pc = "done"

\* C19: when the summary is built, a reply was received: m is a message, the
\* recipient sent it in a direct message, and it is the reply to the last
\* question (the last answer recorded derives from it).
C19_ReplyDefined ==
    \A t \in Threads :
        AllAnswered(t)
        => /\ iv[t].m # NoMessage
           /\ iv[t].m.id \in 1..nMsg
           /\ iv[t].m.author = Recipient(t)
           /\ iv[t].m.channel = DMChannel(Recipient(t))
           /\ iv[t].responses # <<>>
           /\ \E j \in 1..Len(log[t]) :
                /\ log[t][j] = Event("answer", Len(iv[t].config.questions),
                                     Answer(iv[t].m.content,
                                            iv[t].m.attachments))
                /\ \A i \in (j + 1)..Len(log[t]) : log[t][i].ev # "answer"

\* The summary of a two-question interview was sent; the last reply had an
\* attachment.
C19_Witness ==
    /\ iv[1].pc = "pin"
    /\ Len(iv[1].config.questions) = 2
    /\ iv[1].m.id = 2
    /\ iv[1].m.attachments # <<>>

\* The questions sent and the answers recorded so far, in order.
Exchanges(t, ev) == SelectSeq(log[t], LAMBDA e : e.ev = ev)

\* C20: one exchange at a time, in order: question k + 1 is sent only after
\* answer k was recorded, and the questions sent are as many as the answers
\* recorded, or one more (while the flow waits for, or holds, a reply).
C20_OneAtATime ==
    \A t \in Threads :
        LET asked == Exchanges(t, "question")
            answered == Exchanges(t, "answer")
        IN  /\ Len(asked) - Len(answered) \in {0, 1}
            /\ \A k \in 1..Len(asked) : asked[k].k = k
            /\ \A k \in 1..Len(answered) : answered[k].k = k
            /\ \A i, j \in 1..Len(log[t]) :
                 (log[t][j].ev = "question" /\ log[t][j].k > 1
                  /\ log[t][i].ev = "answer" /\ log[t][i].k = log[t][j].k - 1)
                 => i < j
            /\ \A j \in 1..Len(log[t]) :
                 (log[t][j].ev = "question" /\ log[t][j].k > 1)
                 => \E i \in 1..(j - 1) :
                      log[t][i].ev = "answer" /\ log[t][i].k = log[t][j].k - 1
            /\ iv[t].pc \in {"wait", "got", "aborted"}
               => Len(asked) = Len(answered) + 1 /\ Len(asked) = iv[t].n
            /\ iv[t].pc = "ask"
               => Len(asked) = Len(answered) /\ Len(asked) = iv[t].n - 1
            /\ AllAnswered(t) => Len(asked) = Len(answered)

\* The second question is out and its reply is awaited.
C20_Witness ==
    /\ iv[1].pc = "wait"
    /\ iv[1].n = 2
    /\ Len(Exchanges(1, "question")) = 2
    /\ Len(Exchanges(1, "answer")) = 1

\* What a message event does to thread t: it resolves the wait registered
\* at that moment, if it matches, and is otherwise lost to the flow.
C15_OnMessage(t) ==
    nMsg' # nMsg
    => IF iv'[t].m # iv[t].m
       THEN /\ iv[t].pc = "wait"
            /\ iv'[t].pc = "got"
            /\ iv'[t].m.id = nMsg'
            /\ DmCheck(Recipient(t), iv'[t].m)
       ELSE /\ iv'[t].pc = iv[t].pc
            /\ iv'[t].n = iv[t].n
            /\ iv'[t].responses = iv[t].responses
            /\ iv[t].pc = "wait"
               => \A u \in Users, ch \in {"dm", "text"}, r \in Replies :
                    LET msg == [id |-> nMsg', author |-> u,
                                channel |-> IF ch = "dm" THEN DMChannel(u)
                                            ELSE StaffChannel,
                                content |-> r.content,
                                attachments |-> r.attachments]
                    IN  iv'[t] = DeliverToThread(t, msg)
                        => ~DmCheck(Recipient(t), msg)

\* What the flow's own steps do: they never pick up a message, and the
\* answer they record derives from the message the wait returned.
C15_OwnStep(t) ==
    nMsg' = nMsg
    => /\ iv'[t].m = iv[t].m
       /\ iv'[t].pc = "got" => iv[t].pc = "got"
       /\ iv'[t].responses # iv[t].responses
          => /\ iv[t].pc = "got"
             /\ Last(log'[t]) = Event("answer", iv[t].n,
                                      Answer(iv[t].m.content,
                                             iv[t].m.attachments))

\* C15: replies are not buffered: a wait resolves with the first matching
\* message that arrives after it was registered, and a matching message
\* that arrives while no wait is registered is never returned by a later
\* wait and never recorded.
C15_NoBuffering ==
    [][\A t \in Threads : C15_OnMessage(t) /\ C15_OwnStep(t)]_vars

\* A reply sent before the first question was out was dropped, and the wait
\* returned the reply sent after it.
C15_Witness ==
    /\ iv[1].pc = "got"
    /\ iv[1].n = 1
    /\ "ask" \in iv[1].ignored
    /\ iv[1].m.id = 2

C14_OwnReplies(i) ==
    \A t \in Threads :
        /\ i[t].m # NoMessage
           => /\ i[t].m.author = Recipient(t)
              /\ i[t].m.channel = DMChannel(Recipient(t))
        /\ i[t].pc \in {"got", "summarize"} => i[t].m # NoMessage

\* What one step does to two concurrent flows.
C14_Step ==
    /\ \A t, u \in Threads :
         (t # u /\ iv'[t] # iv[t])
         => /\ iv'[u].pc = iv[u].pc
            /\ iv'[u].m = iv[u].m
            /\ iv'[u].n = iv[u].n
            /\ iv'[u].responses = iv[u].responses
            /\ log'[u] = log[u]
            /\ conv'[u] = conv[u]
    /\ \A t \in Threads :
         /\ iv'[t].m # iv[t].m
            => /\ iv[t].pc = "wait"
               /\ iv'[t].pc = "got"
               /\ iv'[t].m.author = Recipient(t)
               /\ iv'[t].m.channel = DMChannel(Recipient(t))
         /\ iv'[t].responses # iv[t].responses
            => /\ iv[t].pc = "got"
               /\ nMsg' = nMsg
               /\ \E j \in 1..Len(iv'[t].responses) :
                    iv'[t].responses[j] =
                        <<iv[t].config.questions[iv[t].n],
                          Answer(iv[t].m.content, iv[t].m.attachments)>>
         /\ conv'[t].closes # conv[t].closes
            => iv[t].pc = "wait" /\ nMsg' = nMsg

\* C14: of two concurrent interviews with distinct recipients, each records
\* only answers its own recipient sent in a direct message; a reply of one
\* recipient does not advance, answer or abort the other interview; and each
\* record of answers changes only by its own flow.
C14_Isolation ==
    [][C14_OwnReplies(iv) /\ C14_OwnReplies(iv') /\ C14_Step]_vars

\* Both interviews hold a recorded answer, each from its own recipient.
C14_Witness ==
    /\ \A t \in Threads : iv[t].responses # <<>> /\ iv[t].m.author = Recipient(t)
    /\ iv[1].m.id # iv[2].m.id

\* What a command that reached its save has written: its field's value.
C17_Value(c) ==
    IF c.variant = "questions" THEN c.questions ELSE Last(c.replies)

\* Command c's save takes the document from before to after: its own field
\* and move_to are overwritten, every other field stays.
C17_Write(c, before, after) ==
    /\ after.has = before.has \cup {c.variant, "move_to"}
    /\ after[c.variant] = C17_Value(c)
    /\ after.move_to = ToStr(c.move_to)
    /\ \A f \in Fields \ {c.variant, "move_to"} : after[f] = before[f]

\* A command that ended without saving.
C17_Aborted(c) == c.pc = "done" /\ Last(c.out).msg # "Saved"

\* The document when both commands have ended.
C17_Outcome(c, doc) ==
    /\ (\A s \in Sessions : c[s].pc = "done" /\ Last(c[s].out).msg = "Saved")
       => IF c[1].variant # c[2].variant
          THEN /\ \A s \in Sessions : doc[c[s].variant] = C17_Value(c[s])
               /\ doc.has = {c[1].variant, c[2].variant, "move_to"}
               /\ \E s \in Sessions : doc.move_to = ToStr(c[s].move_to)
          ELSE \E s \in Sessions :
                 /\ doc[c[s].variant] = C17_Value(c[s])
                 /\ doc.move_to = ToStr(c[s].move_to)
                 /\ doc.has = {c[s].variant, "move_to"}
    /\ \A s, u \in Sessions :
         (c[s].pc = "done" /\ Last(c[s].out).msg = "Saved" /\ C17_Aborted(c[u]))
         => C17_Write(c[s], NoDoc, doc)
    /\ (\A s \in Sessions : C17_Aborted(c[s])) => doc = NoDoc

\* C17: two concurrent commands: the last writer wins. Each save overwrites
\* its own field and move_to in the document as it is at that moment, so
\* when both saved the document holds both fields if the commands differ,
\* the last saver's value if they are the same command, and the last
\* saver's move_to; a command that aborted contributes nothing.
C17_LastWriterWins ==
    [][/\ \A s \in Sessions :
            (cs'[s].pc = "saved" /\ cs[s].pc # "saved")
            => C17_Write(cs'[s], store, store')
       /\ store' # store
          => \E s \in Sessions : cs'[s].pc = "saved" /\ cs[s].pc = "got"
       /\ C17_Outcome(cs', store')]_vars

\* Two operators ran the same command at once with different texts and
\* categories; the second command saved last.
C17_Witness ==
    /\ \A s \in Sessions : cs[s].pc = "done" /\ Last(cs[s].out).msg = "Saved"
    /\ cs[1].variant = cs[2].variant
    /\ C17_Value(cs[1]) # C17_Value(cs[2])
    /\ cs[1].move_to # cs[2].move_to
    /\ store.move_to = ToStr(cs[2].move_to)
    /\ store[cs[2].variant] = C17_Value(cs[2])

\* ------------------------------------- an interview beside a command
\* One interview runs while an operator runs a command: from a config with
\* distinct questions, intro and outro.
InitBoth ==
    /\ InitTwo
    /\ \A j, k \in 1..Len(store.questions) :
         store.questions[j] = store.questions[k] => j = k

\* The operator who invoked the command writes in its channel.
OperatorReply ==
    \E c \in {<<>>, <<"a", "b", "c">>, <<" ", "1">>} :
        OnMessage("op1", StaffChannel, c, <<>>)

NextBoth ==
    \/ InterviewStep(1)
    \/ RecipientMessage
    \/ \E v \in {"questions", "outro", "intro"}, c \in CategoryIds :
          cs[1].pc = "idle" /\ Invoke(1, v, "op1", c)
    \/ SessionStep(1)
    \/ OperatorReply

SpecBoth == InitBoth /\ [][NextBoth]_vars

\* What the interview sends and where it moves the thread, by its snapshot.
C13_FromSnapshot(t) ==
    /\ iv[t].pc = "idle"
       => iv'[t].pc = "idle" \/ iv'[t].config = store
    /\ iv[t].pc # "idle" => iv'[t].config = iv[t].config
    /\ Len(log'[t]) > Len(log[t])
       => LET e == Last(log'[t])
              config == iv[t].config
          IN  /\ e.ev = "intro" => e.text = config.intro
              /\ e.ev = "question" => e.text = config.questions[e.k]
              /\ e.ev = "outro" => e.text = config.outro
              /\ e.ev = "move"
                 => conv'[t].category = ParseInt(config.move_to)
    /\ iv'[t].pc = "got" => iv'[t].n <= Len(iv[t].config.questions)

C16_BeforePersist(c) ==
    /\ c.pc = "crashed"
    /\ \/ c.m = NoMessage
       \/ c.caught # ""
       \/ Last(c.replies) = <<>>
       \/ c.stage = "question" /\ Len(c.questions) < c.count

\* C16: a send or pin that raises ends the interview at that step: the step
\* has no effect, nothing of the flow happens afterwards and nothing is
\* retried; a send that raises in a command before its save leaves the
\* store as it was.
C16_FailureStops ==
    [][/\ \A t \in Threads :
            /\ (iv'[t].pc = "crashed" /\ iv[t].pc # "crashed")
               => /\ log'[t] = log[t]
                  /\ conv'[t] = conv[t]
                  /\ iv'[t].responses = iv[t].responses
                  /\ store' = store
            /\ iv[t].pc = "crashed"
               => /\ iv'[t].pc = "crashed"
                  /\ log'[t] = log[t]
                  /\ conv'[t] = conv[t]
                  /\ iv'[t].responses = iv[t].responses
                  /\ iv'[t].m = iv[t].m
       /\ \A s \in Sessions :
            /\ (cs'[s].pc = "crashed" /\ cs[s].pc # "crashed")
               => store' = store /\ cs'[s].out = cs[s].out
            /\ C16_BeforePersist(cs'[s]) => store' = cs'[s].before]_vars

\* The pin raised after two replies; a command's first prompt raised too.
C16_Witness ==
    /\ iv[1].pc = "crashed"
    /\ log[1] # <<>>
    /\ Last(log[1]).ev = "summary"
    /\ ~conv[1].pinned
    /\ cs[1].pc = "crashed"
    /\ cs[1].m = NoMessage
====
